---- MODULE Spec2Model ----
(***************************************************************************)
(* Model of the supplier-reply classifier of gmail_labeler_keyword_mails:  *)
(* llm_classifier_date.LLMClassifier (the classifier LabelerApp uses) and  *)
(* llm_classifier.LLMClassifier (the variant with retries and ensemble     *)
(* fault tolerance).                                                       *)
(*                                                                         *)
(* A reply text is modelled as the sequence of its lexical units after     *)
(* unicodedata.normalize("NFKD", reply).lower(): each unit is a phrase one *)
(* of the classifier's regular expressions recognises, a quantity, or a    *)
(* time unit.  Dates are proleptic Gregorian ordinals, as date.toordinal().*)
(***************************************************************************)
EXTENDS Integers, Sequences, FiniteSets, TLC

VARIABLES
    reply,      \* the reply text handed to _normalize / classify
    val,        \* raw verdict handed to _normalize
    limit,      \* lead_limit_days
    deadline,   \* deadline date (NoDeadline for None)
    sent,       \* sent date
    ret,        \* outcome of the last _normalize call
    pc,         \* "ready" before the _normalize call, "done" after it
    impl,       \* module of the classifier: "date" is llm_classifier_date,
                \* "base" is llm_classifier
    mode,       \* self.mode
    ensemble_n, \* self.ensemble_n
    cpc,        \* position of classify: "idle", "start", "run", "done"
    calls,      \* model calls issued by this classify
    votes,      \* raw verdicts extracted so far
    errors,     \* failures recorded by _classify_highend
    attempts,   \* attempts counter of _classify_crewai
    outcome,    \* how classify ended: "label" or the exception raised
    label,      \* the label classify returned ("none" while there is none)
    normCalls,  \* calls of _normalize made by this classify
    answer,     \* the response text handed to _extract_int
    parsed,     \* outcome of the last _extract_int(_ask_llm(..)) evaluation
    history,    \* the _normalize calls made so far: arguments and outcome
    labels,     \* Gmail label ids of every message of the mailbox
    body,       \* plain text of every message
    forwarder,  \* whether cfg.forward_to is set
    todo,       \* messages the queries of run_once have still to visit
    apc,        \* position of LabelerApp: "off", "idle", "loop"
    runs,       \* run_once invocations so far
    classified, \* classify invocations per message
    tagged,     \* completed _classify_and_tag calls per message
    forwarded,  \* verdicts under which each message was forwarded
    stage       \* how the last visit of a message by run_once ended

nvars == <<reply, val, limit, deadline, sent, ret, pc>>
cvars == <<impl, mode, ensemble_n, cpc, calls, votes, errors, attempts,
           outcome, label, normCalls, answer, parsed, history>>
avars == <<labels, body, forwarder, todo, apc, runs, classified, tagged,
           forwarded, stage>>
vars == <<nvars, cvars, avars>>

-----------------------------------------------------------------------------
(* Bounds of the model *)

\* longest reply text, in lexical units
MaxLen == 4

-----------------------------------------------------------------------------
(* Lexical units and inputs *)

\* the lexical units replies are built from
Vocabulary ==
    { "unable to", "out of stock", "similar", "maybe", "we can ship",
      "two", "4.5", "3000000", "days", "weeks", "months" }

Texts == UNION { [1..n -> Vocabulary] : n \in 0..MaxLen }

RawVerdicts == {-1, 0, 1}

\* deadline_date = None
NoDeadline == 0

\* date.max.toordinal(): date + timedelta beyond it raises OverflowError
MaxOrdinal == 3652059

\* 2025-01-01 is ordinal 739252
Limits    == {14, 32}
SentDates == {739252}
Deadlines == {NoDeadline, 739252 + 5, 739252 + 60}

-----------------------------------------------------------------------------
(* Lexical Pattern Library: llm_classifier_date.py regexes *)

Matches(text, phrases) == \E i \in DOMAIN text : text[i] \in phrases

UNCERTAIN_RE(text) ==
    Matches(text, {"i'm not sure", "maybe", "perhaps", "depends", "uncertain"})

ALTERNATIVE_RE(text) ==
    Matches(text, {"similar", "alternative", "variant", "option", "colour",
                   "instead", "other product", "substitute", "upgraded"})

NEG_HARD_RE(text) ==
    Matches(text, {"unable to", "not able to", "must decline", "no capacity",
                   "cannot assist"})

NEG_STOCK_RE(text) ==
    Matches(text, {"no stock", "out of stock", "neskladem"})

SUPPLY_RE(text) ==
    Matches(text, {"we can supply", "we can ship", "we can deliver",
                   "we can dispatch", "we can provide", "can ship",
                   "able to supply", "will dispatch", "dispatch in",
                   "ship in", "deliver in"})

\* re.search(r"\b(week|month|year)s?\b", text)
UnitMention(text) ==
    Matches(text, {"week", "weeks", "month", "months", "year", "years"})

-----------------------------------------------------------------------------
(* Temporal Extractor: DELAY_RE and _delay_days *)

_WORD2NUM ==
    [ zero |-> 0, one |-> 1, two |-> 2, three |-> 3, four |-> 4, five |-> 5,
      six |-> 6, seven |-> 7, eight |-> 8, nine |-> 9, ten |-> 10,
      eleven |-> 11, twelve |-> 12, thirteen |-> 13, fourteen |-> 14,
      fifteen |-> 15, sixteen |-> 16, seventeen |-> 17, eighteen |-> 18,
      nineteen |-> 19, twenty |-> 20 ]

\* numeric literals \d+(?:\.\d+)? of the vocabulary, with float(literal) * 10
Literals == [ x \in {"4.5", "3000000"} |->
                IF x = "4.5" THEN 45 ELSE 30000000 ]

\* the <num> group: a literal or a spelled-out number one..twenty
IsNum(tok) == tok \in DOMAIN Literals \/ tok \in (DOMAIN _WORD2NUM \ {"zero"})

\* the <unit> group of a unit token: (day|week|month|year) without the s?
UnitGroup ==
    [ u \in {"day", "days", "week", "weeks", "month", "months", "year", "years"} |->
        CASE u \in {"day", "days"}     -> "day"
          [] u \in {"week", "weeks"}   -> "week"
          [] u \in {"month", "months"} -> "month"
          [] OTHER                     -> "year" ]

IsUnit(tok) == tok \in DOMAIN UnitGroup

\* positions where DELAY_RE matches: a quantity followed by a unit
DelayMatches(text) ==
    { i \in 1..(Len(text) - 1) : IsNum(text[i]) /\ IsUnit(text[i + 1]) }

\* float(cls._WORD2NUM.get(num, num)), in tenths
Qty10(num) ==
    IF num \in DOMAIN _WORD2NUM THEN 10 * _WORD2NUM[num] ELSE Literals[num]

\* unit[:4]
Slice4 == [ u \in {"day", "week", "month", "year"} |->
              IF u = "month" THEN "mont" ELSE u ]

\* the factor table of _delay_days
FACTOR == [ day |-> 1, week |-> 7, month |-> 30, year |-> 365 ]

\* math.ceil(q10 / 10)
Ceil10(q10) == (q10 + 9) \div 10

\* _delay_days: [kind |-> "none"], [kind |-> "days", d |-> n], or the
\* exception the dictionary lookup raises
_delay_days(text) ==
    IF DelayMatches(text) = {} THEN [kind |-> "none", d |-> 0]
    ELSE LET i   == CHOOSE j \in DelayMatches(text) :
                        \A k \in DelayMatches(text) : j <= k
             q10 == Qty10(text[i])
             key == Slice4[UnitGroup[text[i + 1]]]
         IN  IF key \notin DOMAIN FACTOR
             THEN [kind |-> "KeyError", d |-> 0]
             ELSE [kind |-> "days", d |-> Ceil10(q10 * FACTOR[key])]

-----------------------------------------------------------------------------
(* Normalization Rule Engine: llm_classifier_date.LLMClassifier._normalize *)

\* outcome records: the value returned, or the exception raised; late is
\* the local variable late ("unset" when the call ended before line 122)
Returned(v, late, work) ==
    [kind |-> "return", v |-> v, late |-> late, work |-> work]

Raised(exc) ==
    [kind |-> exc, v |-> 0, late |-> "unset", work |-> 0]

\* Coerce that ignores the alternative-offer pattern
Coerce_uncertainOnly(v, text) ==
    IF v = 1 /\ UNCERTAIN_RE(text) THEN 0 ELSE v

\* lines 118-120: affirmative verdict with uncertainty / alternative
Coerce(v, text) ==
    IF v = 1 /\ (UNCERTAIN_RE(text) \/ ALTERNATIVE_RE(text)) THEN 0 ELSE v

\* Late with the limit comparison off by one (delay >= limit)
Late_inclusive(d, lim, dl, snt) ==
    IF dl # NoDeadline
    THEN IF snt + d > MaxOrdinal THEN "overflow"
         ELSE IF snt + d > dl THEN "late" ELSE "ontime"
    ELSE IF d >= lim THEN "late" ELSE "ontime"

\* lines 122-126, for a parsed delay of d days; "overflow" when the date
\* addition leaves the range of datetime.date
Late(d, lim, dl, snt) ==
    IF dl # NoDeadline
    THEN IF snt + d > MaxOrdinal THEN "overflow"
         ELSE IF snt + d > dl THEN "late" ELSE "ontime"
    ELSE IF d > lim THEN "late" ELSE "ontime"

\* Decide without the alternative-offer guard of line 128
Decide_unguarded(work, late, text) ==
    IF late /\ work # -1 THEN 2
    ELSE IF ~late /\ SUPPLY_RE(text) THEN 1
    ELSE IF work = 0 /\ SUPPLY_RE(text) /\ UnitMention(text) THEN 2
    ELSE work

\* Decide whose fallback of line 134 does not ask for a can-supply phrase
Decide_vague(work, late, text) ==
    IF ~ALTERNATIVE_RE(text) /\ late /\ work # -1 THEN 2
    ELSE IF ~ALTERNATIVE_RE(text) /\ ~late /\ SUPPLY_RE(text) THEN 1
    ELSE IF work = 0 /\ UnitMention(text) THEN 2
    ELSE work

\* lines 128-136
Decide(work, late, text) ==
    IF ~ALTERNATIVE_RE(text) /\ late /\ work # -1 THEN 2
    ELSE IF ~ALTERNATIVE_RE(text) /\ ~late /\ SUPPLY_RE(text) THEN 1
    ELSE IF work = 0 /\ SUPPLY_RE(text) /\ UnitMention(text) THEN 2
    ELSE work

\* _normalize that keeps the raw verdict of a mitigated stock-out reply
_normalize_stockKeeps(v, text, lim, dl, snt) ==
    LET delay == _delay_days(text)
    IN  IF delay.kind = "KeyError" THEN Raised("KeyError")
        ELSE IF NEG_HARD_RE(text) THEN Returned(-1, "unset", v)
        ELSE IF NEG_STOCK_RE(text) /\ ~(ALTERNATIVE_RE(text) \/ SUPPLY_RE(text))
             THEN Returned(-1, "unset", v)
        ELSE LET work == Coerce(v, text)
                 l    == IF delay.kind = "days"
                         THEN Late(delay.d, lim, dl, snt) ELSE "ontime"
             IN  IF l = "overflow" THEN Raised("OverflowError")
                 ELSE Returned(Decide(work, l = "late", text), l, work)

_normalize(v, text, lim, dl, snt) ==
    LET delay == _delay_days(text)
    IN  IF delay.kind = "KeyError" THEN Raised("KeyError")
        ELSE IF NEG_HARD_RE(text) THEN Returned(-1, "unset", v)
        ELSE IF NEG_STOCK_RE(text) /\ ~(ALTERNATIVE_RE(text) \/ SUPPLY_RE(text))
             THEN Returned(-1, "unset", v)
        ELSE LET v1   == IF NEG_STOCK_RE(text) THEN 0 ELSE v
                 work == Coerce(v1, text)
                 l    == IF delay.kind = "days"
                         THEN Late(delay.d, lim, dl, snt) ELSE "ontime"
             IN  IF l = "overflow" THEN Raised("OverflowError")
                 ELSE Returned(Decide(work, l = "late", text), l, work)

-----------------------------------------------------------------------------
(* Specification of the rule engine: every input, one call *)

NotCalled == [kind |-> "none", v |-> 0, late |-> "unset", work |-> 0]

\* no mailbox is attached: the classifier is used on its own
NoApp ==
    /\ labels = <<>>
    /\ body = <<>>
    /\ forwarder = FALSE
    /\ todo = <<>>
    /\ apc = "off"
    /\ runs = 0
    /\ classified = <<>>
    /\ tagged = <<>>
    /\ forwarded = <<>>
    /\ stage = "none"

\* no response has been parsed yet
NotParsed == [kind |-> "none", v |-> 0]

\* no classify call is in progress: _normalize is called directly
NoClassify ==
    /\ impl = "date"
    /\ mode = "simple"
    /\ ensemble_n = 1
    /\ cpc = "idle"
    /\ calls = 0
    /\ votes = <<>>
    /\ errors = <<>>
    /\ attempts = 0
    /\ outcome = "none"
    /\ label = "none"
    /\ normCalls = 0
    /\ answer = <<>>
    /\ parsed = NotParsed
    /\ history = <<>>
    /\ NoApp

Init ==
    /\ reply \in Texts
    /\ val \in RawVerdicts
    /\ limit \in Limits
    /\ deadline \in Deadlines
    /\ sent \in SentDates
    /\ ret = NotCalled
    /\ pc = "ready"
    /\ NoClassify

Normalize ==
    /\ pc = "ready"
    /\ cpc = "idle"
    /\ ret' = _normalize(val, reply, limit, deadline, sent)
    /\ pc' = "done"
    /\ UNCHANGED <<reply, val, limit, deadline, sent>>
    /\ UNCHANGED cvars
    /\ UNCHANGED avars

Next == Normalize

Spec == Init /\ [][Next]_vars

-----------------------------------------------------------------------------
(* Model Verdict Source: _ask_llm and _extract_int *)

\* longest model response, in lexical units
MaxRespLen == 2

\* the lexical units of a model response
AnswerUnits ==
    { "<ANSWER>1</ANSWER>", "<ANSWER>0</ANSWER>", "<ANSWER>-1</ANSWER>",
      "<ANSWER>2</ANSWER>", "1", "0", "-1", "sorry" }

Responses == UNION { [1..n -> AnswerUnits] : n \in 0..MaxRespLen }

\* _ask_llm: the completion text, or an exception of the transport
AskOutcomes ==
    { [ok |-> FALSE, text |-> <<>>] } \cup { [ok |-> TRUE, text |-> r] : r \in Responses }

\* units matched by <ANSWER>\s*(-?1|0)\s*</ANSWER>, with int(group(1))
TagValue ==
    [ u \in {"<ANSWER>1</ANSWER>", "<ANSWER>0</ANSWER>", "<ANSWER>-1</ANSWER>"} |->
        CASE u = "<ANSWER>1</ANSWER>" -> 1
          [] u = "<ANSWER>0</ANSWER>" -> 0
          [] OTHER                    -> -1 ]

\* units matched by -?1|0 outside a tag, with int(group())
BareValue ==
    [ u \in {"1", "0", "-1"} |->
        CASE u = "1" -> 1
          [] u = "0" -> 0
          [] OTHER   -> -1 ]

TagMatches(txt)  == { i \in DOMAIN txt : txt[i] \in DOMAIN TagValue }
BareMatches(txt) == { i \in DOMAIN txt : txt[i] \in DOMAIN BareValue }

\* re.search returns the leftmost match
First(S) == CHOOSE i \in S : \A j \in S : i <= j

Extracted(v)       == [kind |-> "int", v |-> v]
ExtractFailed(exc) == [kind |-> exc, v |-> 0]

\* llm_classifier_date._extract_int: the bare pattern has no group 1, so
\* m.group(1) raises IndexError for a bare match
_extract_int(txt) ==
    IF TagMatches(txt) # {} THEN Extracted(TagValue[txt[First(TagMatches(txt))]])
    ELSE IF BareMatches(txt) # {} THEN ExtractFailed("IndexError")
    ELSE ExtractFailed("ValueError")

\* llm_classifier._extract_int
_extract_int_base(txt) ==
    IF TagMatches(txt) # {} THEN Extracted(TagValue[txt[First(TagMatches(txt))]])
    ELSE IF BareMatches(txt) # {} THEN Extracted(BareValue[txt[First(BareMatches(txt))]])
    ELSE ExtractFailed("ValueError")

\* self._extract_int(self._ask_llm(reply)) of module i for model outcome a
Verdict(i, a) ==
    IF ~a.ok THEN ExtractFailed("TransportError")
    ELSE IF i = "date" THEN _extract_int(a.text)
    ELSE _extract_int_base(a.text)

-----------------------------------------------------------------------------
(* llm_classifier.LLMClassifier._normalize *)

\* NEGATIVE_PAT is written for re.X but searched without it: the newline
\* and indentation of the pattern text are literal
NEGATIVE_PAT(text) ==
    Matches(text, {"\n        not able to\n    ", "\n        must decline\n    ",
                   "\n        can't\n    ", "\n        out of stock\n    ",
                   "\n        without capacity\n    "})

UNCERTAIN_PAT(text) ==
    Matches(text, {"i'm not sure", "maybe", "perhaps", "depends", "uncertain"})

ALTERNATIVE_PAT(text) ==
    Matches(text, {"similar", "alternative", "instead", "other product"})

_parse_delay_days(text) == _delay_days(text)

_normalize_base(value, text, lim) ==
    IF NEGATIVE_PAT(text) THEN Returned(-1, "unset", value)
    ELSE IF value # 1 THEN Returned(value, "unset", value)
    ELSE IF UNCERTAIN_PAT(text) \/ ALTERNATIVE_PAT(text)
         THEN Returned(0, "unset", value)
    ELSE LET delay == _parse_delay_days(text)
         IN  IF delay.kind = "KeyError" THEN Raised("KeyError")
             ELSE IF delay.kind = "days"
                  THEN IF delay.d > lim THEN Returned(0, "late", value)
                       ELSE Returned(value, "ontime", value)
             ELSE IF UnitMention(text) THEN Returned(0, "unset", value)
             ELSE Returned(value, "unset", value)

-----------------------------------------------------------------------------
(* Public Classification Facade: classify of both modules *)

\* largest ensemble_n
MaxEnsemble == 2

\* _DEFAULT_LEAD_DAYS
_DEFAULT_LEAD_DAYS == 14

\* default of the max_retries parameter
max_retries == 2

Modes == {"simple", "highend", "crewai", "turbo"}

\* replies classified in the facade model
SampleReplies ==
    { <<>>, <<"we can ship">>, <<"unable to">>, <<"two", "months">>,
      <<"4.5", "weeks">>, <<"we can ship", "two", "weeks">> }

LABEL ==
    [ v \in {-1, 0, 1, 2} |->
        CASE v = 1  -> "positive"
          [] v = 0  -> "neutral"
          [] v = -1 -> "negative"
          [] OTHER  -> "positive_out_of_term" ]

\* Median2 rounding down instead of towards zero
Median2_floor(x) == x \div 2

\* statistics.mode(votes) if len(set(votes))==1 else int(statistics.median(votes))
Median2(x) == IF x >= 0 THEN x \div 2 ELSE -((-x) \div 2)

\* Aggregate taking the mean instead of the median
Aggregate_mean(vs) ==
    LET Sum[i \in 0..Len(vs)] == IF i = 0 THEN 0 ELSE Sum[i - 1] + vs[i]
        t == Sum[Len(vs)]
    IN  IF \A i \in DOMAIN vs : vs[i] = vs[1] THEN vs[1]
        ELSE IF t >= 0 THEN t \div Len(vs) ELSE -((-t) \div Len(vs))

\* Aggregate taking the middle of the votes in their order of arrival
Aggregate_unsorted(vs) ==
    LET n == Len(vs)
    IN  IF \A i \in DOMAIN vs : vs[i] = vs[1] THEN vs[1]
        ELSE IF n % 2 = 1 THEN vs[(n + 1) \div 2]
        ELSE Median2(vs[n \div 2] + vs[n \div 2 + 1])

Aggregate(vs) ==
    LET s == SortSeq(vs, LAMBDA a, b : a < b)
        n == Len(vs)
    IN  IF \A i \in DOMAIN vs : vs[i] = vs[1] THEN vs[1]
        ELSE IF n % 2 = 1 THEN s[(n + 1) \div 2]
        ELSE Median2(s[n \div 2] + s[n \div 2 + 1])

Config == <<reply, limit, deadline, sent, impl, mode, ensemble_n, answer, history>>

\* fin(v) / self.LABEL[self._normalize(...)]: the rule engine is called on v
\* and classify returns the label, or the engine's exception propagates
Fin(v) ==
    LET r == IF impl = "date"
             THEN _normalize(v, reply, limit, deadline, sent)
             ELSE _normalize_base(v, reply, limit)
    IN  /\ val' = v
        /\ ret' = r
        /\ pc' = "done"
        /\ normCalls' = normCalls + 1
        /\ outcome' = IF r.kind = "return" THEN "label" ELSE r.kind
        /\ label' = IF r.kind = "return" THEN LABEL[r.v] ELSE "none"
        /\ cpc' = "done"

\* classify ends with exception exc
Raise(exc) ==
    /\ outcome' = exc
    /\ label' = "none"
    /\ cpc' = "done"
    /\ UNCHANGED <<val, ret, pc, normCalls>>

\* mode "simple" of both modules
ClassifySimple ==
    /\ cpc = "start"
    /\ mode = "simple"
    /\ \E a \in AskOutcomes :
         LET e == Verdict(impl, a)
         IN  /\ calls' = calls + 1
             /\ parsed' = e
             /\ IF e.kind = "int"
                THEN votes' = <<e.v>> /\ Fin(e.v)
                ELSE votes' = votes /\ Raise(e.kind)
    /\ UNCHANGED <<errors, attempts>>
    /\ UNCHANGED Config
    /\ UNCHANGED avars

\* an ensemble loop that normalises every vote as it arrives
ClassifyHighendCall_perVote ==
    /\ cpc \in {"start", "run"}
    /\ mode = "highend"
    /\ calls < ensemble_n
    /\ \E a \in AskOutcomes :
         LET e == Verdict(impl, a)
         IN  /\ calls' = calls + 1
             /\ parsed' = e
             /\ IF e.kind = "int"
                THEN /\ votes' = Append(votes, e.v)
                     /\ normCalls' = normCalls + 1
                     /\ cpc' = "run"
                     /\ UNCHANGED <<errors, outcome, label, val, ret, pc>>
                ELSE IF impl = "base" /\ e.kind = "ValueError"
                THEN /\ errors' = Append(errors, e.kind)
                     /\ cpc' = "run"
                     /\ UNCHANGED <<votes, outcome, label, val, ret, pc, normCalls>>
                ELSE /\ Raise(e.kind)
                     /\ UNCHANGED <<votes, errors>>
    /\ UNCHANGED attempts
    /\ UNCHANGED Config
    /\ UNCHANGED avars

\* one iteration of the ensemble loop: llm_classifier_date lets every
\* exception propagate, llm_classifier catches ValueError only
ClassifyHighendCall ==
    /\ cpc \in {"start", "run"}
    /\ mode = "highend"
    /\ calls < ensemble_n
    /\ \E a \in AskOutcomes :
         LET e == Verdict(impl, a)
         IN  /\ calls' = calls + 1
             /\ parsed' = e
             /\ IF e.kind = "int"
                THEN /\ votes' = Append(votes, e.v)
                     /\ cpc' = "run"
                     /\ UNCHANGED <<errors, outcome, label, val, ret, pc, normCalls>>
                ELSE IF impl = "base" /\ e.kind = "ValueError"
                THEN /\ errors' = Append(errors, e.kind)
                     /\ cpc' = "run"
                     /\ UNCHANGED <<votes, outcome, label, val, ret, pc, normCalls>>
                ELSE /\ Raise(e.kind)
                     /\ UNCHANGED <<votes, errors>>
    /\ UNCHANGED attempts
    /\ UNCHANGED Config
    /\ UNCHANGED avars

\* the ensemble that labels a reply without any vote as neutral
ClassifyHighendAggregate_default ==
    /\ cpc = "run"
    /\ mode = "highend"
    /\ calls = ensemble_n
    /\ IF votes = <<>> THEN Fin(0) ELSE Fin(Aggregate(votes))
    /\ UNCHANGED <<calls, votes, errors, attempts, parsed>>
    /\ UNCHANGED Config
    /\ UNCHANGED avars

\* after the ensemble loop
ClassifyHighendAggregate ==
    /\ cpc = "run"
    /\ mode = "highend"
    /\ calls = ensemble_n
    /\ IF votes = <<>> THEN Raise("EnsembleFailed") ELSE Fin(Aggregate(votes))
    /\ UNCHANGED <<calls, votes, errors, attempts, parsed>>
    /\ UNCHANGED Config
    /\ UNCHANGED avars

\* mode "crewai" of llm_classifier_date: one kickoff, no retry
ClassifyCrewaiDate ==
    /\ cpc = "start"
    /\ mode = "crewai"
    /\ impl = "date"
    /\ \E a \in AskOutcomes :
         LET e == Verdict(impl, a)
         IN  /\ calls' = calls + 1
             /\ parsed' = e
             /\ IF e.kind = "int"
                THEN votes' = <<e.v>> /\ Fin(e.v)
                ELSE votes' = votes /\ Raise(e.kind)
    /\ UNCHANGED <<errors, attempts>>
    /\ UNCHANGED Config
    /\ UNCHANGED avars

\* a retry loop that catches every exception of the attempt
ClassifyCrewaiBase_retryAll ==
    /\ cpc \in {"start", "run"}
    /\ mode = "crewai"
    /\ impl = "base"
    /\ attempts <= max_retries
    /\ \E a \in AskOutcomes :
         LET e == Verdict(impl, a)
         IN  /\ calls' = calls + 1
             /\ parsed' = e
             /\ IF e.kind = "int"
                THEN votes' = <<e.v>> /\ attempts' = attempts /\ Fin(e.v)
                ELSE /\ attempts' = attempts + 1
                     /\ cpc' = "run"
                     /\ UNCHANGED <<votes, outcome, label, val, ret, pc, normCalls>>
    /\ UNCHANGED errors
    /\ UNCHANGED Config
    /\ UNCHANGED avars

\* one iteration of the retry loop of llm_classifier._classify_crewai
ClassifyCrewaiBase ==
    /\ cpc \in {"start", "run"}
    /\ mode = "crewai"
    /\ impl = "base"
    /\ attempts <= max_retries
    /\ \E a \in AskOutcomes :
         LET e == Verdict(impl, a)
         IN  /\ calls' = calls + 1
             /\ parsed' = e
             /\ IF e.kind = "int"
                THEN votes' = <<e.v>> /\ attempts' = attempts /\ Fin(e.v)
                ELSE IF e.kind = "ValueError"
                THEN /\ attempts' = attempts + 1
                     /\ cpc' = "run"
                     /\ UNCHANGED <<votes, outcome, label, val, ret, pc, normCalls>>
                ELSE /\ Raise(e.kind)
                     /\ UNCHANGED <<votes, attempts>>
    /\ UNCHANGED errors
    /\ UNCHANGED Config
    /\ UNCHANGED avars

\* the retry loop ended without a label
ClassifyCrewaiExhausted ==
    /\ cpc = "run"
    /\ mode = "crewai"
    /\ impl = "base"
    /\ attempts > max_retries
    /\ Raise("RetriesExceeded")
    /\ UNCHANGED <<calls, votes, errors, attempts, parsed>>
    /\ UNCHANGED Config
    /\ UNCHANGED avars

\* an unrecognised mode string treated as "simple"
ClassifyUnknownMode_fallback ==
    /\ cpc = "start"
    /\ mode \notin {"simple", "highend", "crewai"}
    /\ \E a \in AskOutcomes :
         LET e == Verdict(impl, a)
         IN  /\ calls' = calls + 1
             /\ parsed' = e
             /\ IF e.kind = "int"
                THEN votes' = <<e.v>> /\ Fin(e.v)
                ELSE votes' = votes /\ Raise(e.kind)
    /\ UNCHANGED <<errors, attempts>>
    /\ UNCHANGED Config
    /\ UNCHANGED avars

\* any other mode string
ClassifyUnknownMode ==
    /\ cpc = "start"
    /\ mode \notin {"simple", "highend", "crewai"}
    /\ Raise("UnknownMode")
    /\ UNCHANGED <<calls, votes, errors, attempts, parsed>>
    /\ UNCHANGED Config
    /\ UNCHANGED avars

InitClassify ==
    /\ reply \in SampleReplies
    /\ val = 0
    /\ limit = _DEFAULT_LEAD_DAYS
    /\ deadline = NoDeadline
    /\ sent \in SentDates
    /\ ret = NotCalled
    /\ pc = "ready"
    /\ impl \in {"date", "base"}
    /\ mode \in Modes
    /\ ensemble_n \in 1..MaxEnsemble
    /\ cpc = "start"
    /\ calls = 0
    /\ votes = <<>>
    /\ errors = <<>>
    /\ attempts = 0
    /\ outcome = "none"
    /\ label = "none"
    /\ normCalls = 0
    /\ answer = <<>>
    /\ parsed = NotParsed
    /\ history = <<>>
    /\ NoApp

NextClassify ==
    \/ ClassifySimple
    \/ ClassifyHighendCall
    \/ ClassifyHighendAggregate
    \/ ClassifyCrewaiDate
    \/ ClassifyCrewaiBase
    \/ ClassifyCrewaiExhausted
    \/ ClassifyUnknownMode

SpecClassify == InitClassify /\ [][NextClassify]_vars

-----------------------------------------------------------------------------
(* Ensemble Aggregator on its own: the state after the ensemble loop *)

\* most votes of one ensemble
MaxVotes == 5

VoteSeqs == UNION { [1..n -> RawVerdicts] : n \in 1..MaxVotes }

\* the ensemble loop has ended and every call gave a vote
InitAggregate ==
    /\ reply \in SampleReplies
    /\ val = 0
    /\ limit = _DEFAULT_LEAD_DAYS
    /\ deadline = NoDeadline
    /\ sent \in SentDates
    /\ ret = NotCalled
    /\ pc = "ready"
    /\ impl \in {"date", "base"}
    /\ mode = "highend"
    /\ votes \in VoteSeqs
    /\ ensemble_n = Len(votes)
    /\ calls = Len(votes)
    /\ cpc = "run"
    /\ errors = <<>>
    /\ attempts = 0
    /\ outcome = "none"
    /\ label = "none"
    /\ normCalls = 0
    /\ answer = <<>>
    /\ parsed = Extracted(votes[Len(votes)])
    /\ history = <<>>
    /\ NoApp

NextAggregate == ClassifyHighendAggregate

SpecAggregate == InitAggregate /\ [][NextAggregate]_vars

-----------------------------------------------------------------------------
(* _extract_int on its own: one model response is parsed *)

InitExtract ==
    /\ reply = <<>>
    /\ val = 0
    /\ limit = _DEFAULT_LEAD_DAYS
    /\ deadline = NoDeadline
    /\ sent \in SentDates
    /\ ret = NotCalled
    /\ pc = "extract"
    /\ impl \in {"date", "base"}
    /\ mode = "simple"
    /\ ensemble_n = 1
    /\ cpc = "idle"
    /\ calls = 0
    /\ votes = <<>>
    /\ errors = <<>>
    /\ attempts = 0
    /\ outcome = "none"
    /\ label = "none"
    /\ normCalls = 0
    /\ answer \in Responses
    /\ parsed = NotParsed
    /\ history = <<>>
    /\ NoApp

\* self._extract_int(answer)
ExtractInt ==
    /\ pc = "extract"
    /\ parsed' = IF impl = "date" THEN _extract_int(answer)
                 ELSE _extract_int_base(answer)
    /\ pc' = "extracted"
    /\ UNCHANGED <<reply, val, limit, deadline, sent, ret, impl, mode,
                   ensemble_n, cpc, calls, votes, errors, attempts, outcome,
                   label, normCalls, answer, history>>
    /\ UNCHANGED avars

NextExtract == ExtractInt

SpecExtract == InitExtract /\ [][NextExtract]_vars

-----------------------------------------------------------------------------
(* The rule engine called repeatedly on one classifier instance *)

\* most _normalize calls on one instance
MaxCalls == 3

RepeatReplies   == { <<"we can ship">>, <<"4.5", "weeks">> }
RepeatVerdicts  == {-1, 1}
RepeatSent      == {739252 - 30, 739252}
RepeatDeadlines == {NoDeadline, 739252 + 5}

\* one call: its five arguments and how it ended
Call(v, text, lim, dl, snt, out) ==
    [v |-> v, text |-> text, lim |-> lim, dl |-> dl, snt |-> snt, out |-> out]

InitRepeat ==
    /\ reply = <<>>
    /\ val = 0
    /\ limit = _DEFAULT_LEAD_DAYS
    /\ deadline = NoDeadline
    /\ sent = 739252
    /\ ret = NotCalled
    /\ pc = "ready"
    /\ NoClassify

\* a _normalize that keeps a negative verdict of the previous call
NormalizeAgain_sticky ==
    /\ cpc = "idle"
    /\ Len(history) < MaxCalls
    /\ \E v \in RepeatVerdicts, text \in RepeatReplies, lim \in Limits,
          dl \in RepeatDeadlines, snt \in RepeatSent :
         LET w   == IF ret.kind = "return" /\ ret.v = -1 THEN -1 ELSE v
             out == _normalize(w, text, lim, dl, snt)
         IN  /\ reply' = text
             /\ val' = v
             /\ limit' = lim
             /\ deadline' = dl
             /\ sent' = snt
             /\ ret' = out
             /\ history' = Append(history, Call(v, text, lim, dl, snt, out))
    /\ pc' = "done"
    /\ mode' \in {"simple", "highend"}
    /\ UNCHANGED <<impl, ensemble_n, cpc, calls, votes, errors, attempts,
                   outcome, label, normCalls, answer, parsed>>
    /\ UNCHANGED avars

\* one more call of the classmethod _normalize, whatever the instance's
\* attributes are by then
NormalizeAgain ==
    /\ cpc = "idle"
    /\ Len(history) < MaxCalls
    /\ \E v \in RepeatVerdicts, text \in RepeatReplies, lim \in Limits,
          dl \in RepeatDeadlines, snt \in RepeatSent :
         LET out == _normalize(v, text, lim, dl, snt)
         IN  /\ reply' = text
             /\ val' = v
             /\ limit' = lim
             /\ deadline' = dl
             /\ sent' = snt
             /\ ret' = out
             /\ history' = Append(history, Call(v, text, lim, dl, snt, out))
    /\ pc' = "done"
    /\ mode' \in {"simple", "highend"}
    /\ UNCHANGED <<impl, ensemble_n, cpc, calls, votes, errors, attempts,
                   outcome, label, normCalls, answer, parsed>>
    /\ UNCHANGED avars

NextRepeat == NormalizeAgain

SpecRepeat == InitRepeat /\ [][NextRepeat]_vars

-----------------------------------------------------------------------------
(* LabelerApp: run_once and _classify_and_tag over one mailbox *)

\* most run_once invocations
MaxRuns == 2

\* most messages the queries of one run_once return, repetitions counted
MaxHits == 2

Msgs == {"m1", "m2"}

\* pos_id, pos_term_id, neg_id, neu_id of LabelerApp.__init__
VerdictIds == {"pos_id", "pos_term_id", "neg_id", "neu_id"}

\* the labels a message of the mailbox may carry before the first run
InitLabels ==
    { {}, {"pos_id", "neu_id"}, {"neu_id", "done_id", "main_id"} }

AppReplies == { <<"days">>, <<"we can ship", "two", "days">> }

\* what the model may answer to the app's classify: no answer at all, a
\* tagged verdict, no verdict
AppAnswers ==
    { [ok |-> FALSE, text |-> <<>>] } \cup
    { [ok |-> TRUE, text |-> <<u>>] :
        u \in {"<ANSWER>1</ANSWER>", "<ANSWER>0</ANSWER>",
               "<ANSWER>-1</ANSWER>", "sorry"} }

\* what the keyword, sender and intersection queries of one run_once
\* return, in the order run_once visits it
HitLists == UNION { [1..n -> Msgs] : n \in 0..MaxHits }

\* AppConfig.llm_confidence = 0.20, in hundredths
llm_confidence == 20

\* lead_limit_days=cfg.llm_confidence: a delay is a whole number of days,
\* so delay > 0.20 is delay > 0
AppLimit == llm_confidence \div 100

\* the tag table of _classify_and_tag
TagOf ==
    [ positive |-> "pos_id", positive_out_of_term |-> "pos_term_id",
      negative |-> "neg_id", neutral |-> "neu_id" ]

\* the verdicts with a forward branch
Forwardable == {"positive", "positive_out_of_term", "neutral"}

\* a mailbox that is never asked for the PROCESSED label
_already_done_never(m) == FALSE

_already_done(m) == "done_id" \in labels[m]

\* the two modify_labels calls with the removal left out
Tagged_keepOld(ls, tag) == ls \cup {tag, "done_id", "main_id"}

\* the two modify_labels calls of _classify_and_tag
Tagged(ls, tag) == (ls \ VerdictIds) \cup {tag, "done_id", "main_id"}

\* _classify_and_tag clearing the old labels before it classifies
Effect_clearFirst(ls, st, tag) ==
    CASE st \in {"classify", "remove", "add"} -> ls \ VerdictIds
      [] OTHER                                -> Tagged(ls, tag)

\* labels of a message after a _classify_and_tag that ended at st: an
\* exception of classify, of the first or the second modify_labels, of
\* forward, or the normal return ("done")
Effect(ls, st, tag) ==
    CASE st \in {"classify", "remove"} -> ls
      [] st = "add"                    -> ls \ VerdictIds
      [] OTHER                         -> Tagged(ls, tag)

Stages == {"classify", "remove", "add", "forward", "done"}

InitApp ==
    /\ reply = <<>>
    /\ val = 0
    /\ limit = AppLimit
    /\ deadline = NoDeadline
    /\ sent \in SentDates
    /\ ret = NotCalled
    /\ pc = "ready"
    /\ impl = "date"
    /\ mode = "simple"
    /\ ensemble_n = 1
    /\ cpc = "idle"
    /\ calls = 0
    /\ votes = <<>>
    /\ errors = <<>>
    /\ attempts = 0
    /\ outcome = "none"
    /\ label = "none"
    /\ normCalls = 0
    /\ answer = <<>>
    /\ parsed = NotParsed
    /\ history = <<>>
    /\ labels \in [Msgs -> InitLabels]
    /\ body \in [Msgs -> AppReplies]
    /\ forwarder \in BOOLEAN
    /\ todo = <<>>
    /\ apc = "idle"
    /\ runs = 0
    /\ classified = [m \in Msgs |-> 0]
    /\ tagged = [m \in Msgs |-> 0]
    /\ forwarded = [m \in Msgs |-> <<>>]
    /\ stage = "none"

\* run_once is entered; the queries return their messages
RunOnce ==
    /\ apc = "idle"
    /\ runs < MaxRuns
    /\ runs' = runs + 1
    /\ todo' \in HitLists
    /\ apc' = "loop"
    /\ UNCHANGED <<labels, body, forwarder, classified, tagged, forwarded, stage>>
    /\ UNCHANGED <<nvars, cvars>>

\* if self._already_done(m["id"]): continue
Skip ==
    /\ apc = "loop"
    /\ todo # <<>>
    /\ _already_done(Head(todo))
    /\ todo' = Tail(todo)
    /\ stage' = "skipped"
    /\ UNCHANGED <<labels, body, forwarder, apc, runs, classified, tagged,
                   forwarded>>
    /\ UNCHANGED <<nvars, cvars>>

\* self._classify_and_tag(m["id"]) for a message without PROCESSED; an
\* exception leaves run_once
ClassifyAndTag ==
    /\ apc = "loop"
    /\ todo # <<>>
    /\ ~_already_done(Head(todo))
    /\ \E a \in AppAnswers :
         LET m  == Head(todo)
             e  == Verdict(impl, a)
             r  == IF e.kind = "int"
                   THEN _normalize(e.v, body[m], limit, deadline, sent)
                   ELSE NotCalled
             ok == e.kind = "int" /\ r.kind = "return"
             sentiment == IF ok THEN LABEL[r.v] ELSE "none"
             tag == IF ok THEN TagOf[sentiment] ELSE "none"
             fw  == ok /\ forwarder /\ sentiment \in Forwardable
             ends == IF ~ok THEN {"classify"}
                     ELSE IF fw THEN Stages \ {"classify"}
                     ELSE Stages \ {"classify", "forward"}
         IN  /\ reply' = body[m]
             /\ val' = IF e.kind = "int" THEN e.v ELSE val
             /\ ret' = r
             /\ parsed' = e
             /\ outcome' = IF ok THEN "label"
                           ELSE IF e.kind = "int" THEN r.kind ELSE e.kind
             /\ label' = sentiment
             /\ classified' = [classified EXCEPT ![m] = @ + 1]
             /\ \E st \in ends :
                  /\ labels' = [labels EXCEPT ![m] = Effect(@, st, tag)]
                  /\ stage' = st
                  /\ IF st = "done"
                     THEN /\ tagged' = [tagged EXCEPT ![m] = @ + 1]
                          /\ forwarded' =
                               IF fw
                               THEN [forwarded EXCEPT ![m] = Append(@, sentiment)]
                               ELSE forwarded
                          /\ todo' = Tail(todo)
                          /\ apc' = "loop"
                     ELSE /\ UNCHANGED <<tagged, forwarded>>
                          /\ todo' = <<>>
                          /\ apc' = "idle"
    /\ UNCHANGED <<body, forwarder, runs>>
    /\ UNCHANGED <<limit, deadline, sent, pc>>
    /\ UNCHANGED <<impl, mode, ensemble_n, cpc, calls, votes, errors, attempts,
                   normCalls, answer, history>>

\* the three loops of run_once are through
RunOnceEnd ==
    /\ apc = "loop"
    /\ todo = <<>>
    /\ apc' = "idle"
    /\ UNCHANGED <<labels, body, forwarder, todo, runs, classified, tagged,
                   forwarded, stage>>
    /\ UNCHANGED <<nvars, cvars>>

NextApp ==
    \/ RunOnce
    \/ Skip
    \/ ClassifyAndTag
    \/ RunOnceEnd

SpecApp == InitApp /\ [][NextApp]_vars

-----------------------------------------------------------------------------
(* Properties of the rule engine *)

\* what the text says about timing, read with the documented factor table
\* (day=1, week=7, month=30, year=365)
StatedDelay(text) ==
    IF DelayMatches(text) = {} THEN [kind |-> "none", d |-> 0]
    ELSE LET i == CHOOSE j \in DelayMatches(text) :
                      \A k \in DelayMatches(text) : j <= k
         IN  [kind |-> "days",
              d |-> Ceil10(Qty10(text[i]) * FACTOR[UnitGroup[text[i + 1]]])]

\* d days are past the limit, or past the deadline when one is given
PastTerm(d) ==
    IF deadline # NoDeadline THEN sent + d > deadline ELSE d > limit

\* the call got as far as computing late: no hard decline, no unmitigated
\* stock-out
ReachedTiming ==
    /\ ~NEG_HARD_RE(reply)
    /\ ~(NEG_STOCK_RE(reply) /\ ~ALTERNATIVE_RE(reply) /\ ~SUPPLY_RE(reply))

\* C1: every reply matching the hard-decline pattern is labelled negative,
\* whatever the raw verdict, limit, dates and other matches.
C1_HardDeclineNegative ==
    (pc = "done" /\ NEG_HARD_RE(reply)) => (ret.kind = "return" /\ ret.v = -1)

\* C2: a stock-out reply with neither an alternative offer nor a can-supply
\* phrase is labelled negative, whatever the raw verdict and delay phrase.
C2_StockOutNegative ==
    (pc = "done" /\ NEG_STOCK_RE(reply)
        /\ ~ALTERNATIVE_RE(reply) /\ ~SUPPLY_RE(reply))
    => (ret.kind = "return" /\ ret.v = -1)

\* C3 (as claimed): positive_out_of_term is returned only for a reply that
\* matches can_supply and whose parsed delay is past the limit or deadline.
C3_OutOfTermNeedsSupply ==
    (pc = "done" /\ ret.kind = "return" /\ ret.v = 2)
    => /\ SUPPLY_RE(reply)
       /\ _delay_days(reply).kind = "days"
       /\ PastTerm(_delay_days(reply).d)

\* C3 (amended): positive_out_of_term is returned only when either the text
\* has no alternative offer and its parsed delay is past the limit or
\* deadline, or the working verdict is 0, can_supply matches and the text
\* mentions a week/month/year unit.
C3_OutOfTermOrigins ==
    (pc = "done" /\ ret.kind = "return" /\ ret.v = 2)
    => \/ /\ ~ALTERNATIVE_RE(reply)
          /\ _delay_days(reply).kind = "days"
          /\ PastTerm(_delay_days(reply).d)
       \/ /\ ret.work = 0
          /\ SUPPLY_RE(reply)
          /\ UnitMention(reply)

\* a late reply without a can-supply phrase is labelled positive_out_of_term
C3_Witness ==
    /\ pc = "done" /\ ret.kind = "return" /\ ret.v = 2
    /\ ~SUPPLY_RE(reply)
    /\ ret.late = "late"

\* C4: without a deadline the reply is late exactly when a delay d was parsed
\* and d > limit; d = limit is on time and no parsed delay is never late.
C4_LateIffOverLimit ==
    (pc = "done" /\ deadline = NoDeadline /\ ret.kind = "return" /\ ReachedTiming)
    => /\ ret.late \in {"late", "ontime"}
       /\ ret.late = "late" <=> /\ _delay_days(reply).kind = "days"
                                /\ _delay_days(reply).d > limit

\* a parsed delay equal to the limit was found on time
C4_Witness ==
    /\ pc = "done" /\ deadline = NoDeadline /\ ret.kind = "return"
    /\ ReachedTiming
    /\ _delay_days(reply).kind = "days"
    /\ _delay_days(reply).d = limit
    /\ ret.late = "ontime"

\* C5: with a deadline and a parsed delay d the reply is late exactly when
\* sent + d > deadline, and the outcome is the same for every limit.
C5_DeadlineDecides ==
    (pc = "done" /\ deadline # NoDeadline /\ ReachedTiming
        /\ _delay_days(reply).kind = "days")
    => /\ ret.kind = "return"
       /\ ret.late = "late" <=> sent + _delay_days(reply).d > deadline
       /\ \A l \in Limits : _normalize(val, reply, l, deadline, sent) = ret

\* C6: a can-supply reply without hard decline, stock-out or alternative
\* offer, with no delay or a delay within the limit/deadline, is positive.
C6_OnTimeSupplyPositive ==
    (pc = "done" /\ SUPPLY_RE(reply) /\ ~NEG_HARD_RE(reply)
        /\ ~NEG_STOCK_RE(reply) /\ ~ALTERNATIVE_RE(reply)
        /\ (StatedDelay(reply).kind = "days" => ~PastTerm(StatedDelay(reply).d)))
    => (ret.kind = "return" /\ ret.v = 1)

\* C7: a reply without hard decline, alternative offer or unmitigated
\* stock-out whose parsed delay is late is positive_out_of_term whenever the
\* working verdict is not -1.
C7_LateOutOfTerm ==
    (pc = "done" /\ ReachedTiming /\ ~ALTERNATIVE_RE(reply)
        /\ _delay_days(reply).kind = "days"
        /\ PastTerm(_delay_days(reply).d)
        /\ (IF NEG_STOCK_RE(reply) THEN 0 ELSE val) # -1)
    => (ret.kind = "return" /\ ret.v = 2)

-----------------------------------------------------------------------------
(* Properties of the facade *)

\* the exceptions a classify call ends with when no verdict was obtained
NoVerdictErrors ==
    { "TransportError", "ValueError", "IndexError", "EnsembleFailed",
      "RetriesExceeded", "UnknownMode" }

\* C8: classify never turns a failed classification into a verdict: it
\* returns a label only when a raw verdict was extracted, and ends with an
\* exception whenever no verdict was extracted.
C8_NoVerdictNoLabel ==
    /\ label # "none" <=> outcome = "label"
    /\ outcome = "label" => (votes # <<>> /\ normCalls >= 1)
    /\ (cpc = "done" /\ votes = <<>>)
           => (outcome \in NoVerdictErrors /\ label = "none")

\* every call of an ensemble failed and classify raised
C8_Witness ==
    /\ cpc = "done"
    /\ mode = "highend"
    /\ calls = ensemble_n
    /\ votes = <<>>
    /\ outcome = "EnsembleFailed"
    /\ label = "none"

\* C9: the ensemble issues exactly n model calls, drops and records each
\* call that fails with a parse or transport error, and aggregates the
\* surviving votes whenever one call succeeded.
C9_EnsembleTolerant ==
    (mode = "highend" /\ cpc = "done")
    => /\ calls = ensemble_n
       /\ Len(votes) + Len(errors) = ensemble_n
       /\ votes # <<>> => normCalls = 1

\* C10: when every one of the n calls of llm_classifier's ensemble failed,
\* classify raises the aggregate error listing the n failures, returns no
\* label and does not call the rule engine.
C10_ExhaustedAggregate ==
    (impl = "base" /\ mode = "highend" /\ cpc = "done"
        /\ calls = ensemble_n /\ votes = <<>>)
    => /\ outcome = "EnsembleFailed"
       /\ Len(errors) = ensemble_n
       /\ label = "none"
       /\ normCalls = 0

-----------------------------------------------------------------------------
(* Properties of the ensemble aggregate *)

Count(vs, x) == Cardinality({ i \in DOMAIN vs : vs[i] = x })

AtMost(vs, m) == Cardinality({ i \in DOMAIN vs : vs[i] <= m })

\* the k-th smallest vote
Kth(vs, k) ==
    CHOOSE m \in RawVerdicts :
        /\ AtMost(vs, m) >= k
        /\ \A l \in RawVerdicts : AtMost(vs, l) >= k => m <= l

LowMid(vs)  == Kth(vs, (Len(vs) + 1) \div 2)
HighMid(vs) == Kth(vs, Len(vs) \div 2 + 1)

Unanimous(vs) == \A i \in DOMAIN vs : vs[i] = vs[1]

\* C11: the aggregate of the votes is their common value when they agree,
\* otherwise their median converted to an integer (a half is dropped); it
\* is always -1, 0 or 1, and the votes [1, -1] aggregate to 0.
C11_AggregateIsMedian ==
    cpc = "done"
    => /\ val \in RawVerdicts
       /\ Unanimous(votes) => val = votes[1]
       /\ ~Unanimous(votes) =>
            IF (LowMid(votes) + HighMid(votes)) % 2 = 0
            THEN 2 * val = LowMid(votes) + HighMid(votes)
            ELSE val = 0
       /\ votes = <<1, -1>> => val = 0

\* the votes [1, -1] were aggregated to 0
C11_Witness ==
    /\ cpc = "done"
    /\ votes = <<1, -1>>
    /\ val = 0

\* C12 (as claimed): a value that occurs strictly more often than each
\* other value is the aggregate.
C12_PluralityWins ==
    cpc = "done"
    => \A x \in RawVerdicts :
         (\A y \in RawVerdicts \ {x} : Count(votes, x) > Count(votes, y))
         => val = x

\* C12 (amended): a value that makes up more than half of the votes is the
\* aggregate.
C12_MajorityWins ==
    cpc = "done"
    => \A x \in RawVerdicts :
         2 * Count(votes, x) > Len(votes) => val = x

\* votes that do not all agree, with one value in more than half of them
C12_Witness ==
    /\ cpc = "done"
    /\ ~Unanimous(votes)
    /\ \E x \in RawVerdicts : 2 * Count(votes, x) > Len(votes) /\ val = x

\* C13: every reordering of the votes gives the same aggregate and the
\* same final verdict.
C13_OrderIndependent ==
    cpc = "done"
    => \A ws \in VoteSeqs :
         (/\ Len(ws) = Len(votes)
          /\ \A x \in RawVerdicts : Count(ws, x) = Count(votes, x))
         => /\ Aggregate(ws) = val
            /\ ret = IF impl = "date"
                     THEN _normalize(Aggregate(ws), reply, limit, deadline, sent)
                     ELSE _normalize_base(Aggregate(ws), reply, limit)

\* votes that arrived out of order were aggregated
C13_Witness ==
    /\ cpc = "done"
    /\ \E i, j \in DOMAIN votes : i < j /\ votes[i] > votes[j]
    /\ val = Aggregate(SortSeq(votes, LAMBDA a, b : a < b))

-----------------------------------------------------------------------------
(* Properties of _extract_int *)

AnswerTags == { "<ANSWER>1</ANSWER>", "<ANSWER>0</ANSWER>", "<ANSWER>-1</ANSWER>" }
BareDigits == { "1", "0", "-1" }

\* the verdict a unit of the response stands for
UnitVerdict(u) ==
    IF u \in {"<ANSWER>1</ANSWER>", "1"} THEN 1
    ELSE IF u \in {"<ANSWER>0</ANSWER>", "0"} THEN 0
    ELSE -1

\* position of the leftmost unit of the response that is in S, 0 if none
Leftmost(txt, S) ==
    IF \E i \in DOMAIN txt : txt[i] \in S
    THEN CHOOSE i \in DOMAIN txt :
            txt[i] \in S /\ \A j \in 1..(i - 1) : txt[j] \notin S
    ELSE 0

\* C14: the value of the tag is returned when a tag with -1, 0 or 1 is
\* present, whatever bare digit precedes it; without such a tag the first
\* bare -1, 0 or 1 is returned.
C14_TagThenBare ==
    pc = "extracted"
    => LET t == Leftmost(answer, AnswerTags)
           b == Leftmost(answer, BareDigits)
       IN  /\ t # 0 => parsed = [kind |-> "int", v |-> UnitVerdict(answer[t])]
           /\ (t = 0 /\ b # 0) =>
                parsed = [kind |-> "int", v |-> UnitVerdict(answer[b])]

\* C15: a response with neither a tag nor a bare -1, 0 or 1 gives the parse
\* error, and a value in {-1,0,1} or the parse error are the only outcomes.
C15_ValueOrParseError ==
    pc = "extracted"
    => /\ (Leftmost(answer, AnswerTags) = 0 /\ Leftmost(answer, BareDigits) = 0)
            => parsed.kind = "ValueError"
       /\ \/ parsed.kind = "int" /\ parsed.v \in RawVerdicts
          \/ parsed.kind = "ValueError"

-----------------------------------------------------------------------------
(* Properties of the modes of classify *)

\* C16: the retry loop of llm_classifier makes at most max_retries + 1
\* attempts, every attempt but the last ended in a parse failure, a
\* transport failure ends classify at once, and max_retries + 1 parse
\* failures end it with an error and without a label.
C16_BoundedRetries ==
    (mode = "crewai" /\ impl = "base")
    => /\ calls <= max_retries + 1
       /\ attempts <= calls
       /\ calls <= attempts + 1
       /\ cpc = "run" => (parsed.kind = "ValueError" /\ attempts = calls)
       /\ parsed.kind = "TransportError"
            => (cpc = "done" /\ outcome = "TransportError" /\ label = "none")
       /\ (cpc = "done" /\ attempts = max_retries + 1)
            => (outcome = "RetriesExceeded" /\ label = "none" /\ normCalls = 0)

\* the retry loop gave up after max_retries + 1 unparsable responses
C16_Witness ==
    /\ mode = "crewai"
    /\ impl = "base"
    /\ cpc = "done"
    /\ outcome = "RetriesExceeded"
    /\ calls = max_retries + 1

\* the normalisation of the vote v that classify hands to fin
Normalized(v) ==
    IF impl = "date" THEN _normalize(v, reply, limit, deadline, sent)
    ELSE _normalize_base(v, reply, limit)

\* C17: a classify call that returns a label has normalised exactly once;
\* no model call follows the normalisation; the ensemble normalises the
\* aggregate of its votes and not the votes.
C17_NormalizeOnce ==
    /\ [](/\ normCalls <= 1
          /\ outcome = "label" => (normCalls = 1 /\ cpc = "done")
          /\ normCalls = 1 => (cpc = "done" /\ votes # <<>>)
          /\ (mode = "highend" /\ normCalls = 1)
               => (/\ calls = ensemble_n
                   /\ val = Aggregate(votes)
                   /\ ret = Normalized(Aggregate(votes))))
    /\ [][normCalls >= 1 => (calls' = calls /\ normCalls' = normCalls)]_vars

\* an ensemble of two votes returned a label
C17_Witness ==
    /\ mode = "highend"
    /\ outcome = "label"
    /\ Len(votes) = 2
    /\ normCalls = 1

\* C18: an unrecognised mode string ends classify with the unknown-mode
\* error: no model call, no retry, no label.
C18_UnknownModeFatal ==
    mode \notin {"simple", "highend", "crewai"}
    => /\ calls = 0
       /\ attempts = 0
       /\ normCalls = 0
       /\ label = "none"
       /\ parsed = NotParsed
       /\ cpc = "done" => outcome = "UnknownMode"

\* classify ended on an unrecognised mode string
C18_Witness ==
    /\ mode \notin {"simple", "highend", "crewai"}
    /\ cpc = "done"
    /\ outcome = "UnknownMode"

-----------------------------------------------------------------------------
(* Properties of the rule engine as a function *)

\* C19: _normalize ends every call by returning one of the four verdicts.
C19_NormalizeTotal ==
    pc = "done" => (ret.kind = "return" /\ ret.v \in {-1, 0, 1, 2})

SameArguments(c, d) ==
    /\ c.v = d.v
    /\ c.text = d.text
    /\ c.lim = d.lim
    /\ c.dl = d.dl
    /\ c.snt = d.snt

-----------------------------------------------------------------------------
(* Properties of the later rules of the rule engine *)

\* the reply states no delay that is past the limit or the deadline
NotPastTerm ==
    LET sd == StatedDelay(reply)
    IN  sd.kind = "none" \/ ~PastTerm(sd.d)

\* C21: positive_out_of_term that does not come from a late delay (line
\* 129) comes from the fallback of line 134, and then the working verdict
\* is 0, can_supply matches, a week/month/year unit is mentioned and the
\* text holds no parseable delay.
C21_FallbackWithoutDelay ==
    (/\ pc = "done"
     /\ ret.kind = "return"
     /\ ret.v = 2
     /\ (ALTERNATIVE_RE(reply) \/ NotPastTerm))
    => /\ ret.work = 0
       /\ SUPPLY_RE(reply)
       /\ UnitMention(reply)
       /\ DelayMatches(reply) = {}

\* no pattern of the library matches and no delay is stated
NoOverride(text) ==
    /\ ~NEG_HARD_RE(text)
    /\ ~NEG_STOCK_RE(text)
    /\ ~UNCERTAIN_RE(text)
    /\ ~ALTERNATIVE_RE(text)
    /\ ~SUPPLY_RE(text)
    /\ DelayMatches(text) = {}

\* C22: when no pattern matches and no delay is stated, the raw verdict is
\* returned: 1 as positive, 0 as neutral, -1 as negative.
C22_NoOverrideKeepsVerdict ==
    (pc = "done" /\ NoOverride(reply))
    => /\ ret.kind = "return"
       /\ ret.v = val
       /\ LABEL[ret.v] = CASE val = 1 -> "positive"
                           [] val = 0 -> "neutral"
                           [] OTHER   -> "negative"

\* a reply that only mentions a unit kept its affirmative verdict
C22_Witness ==
    /\ pc = "done"
    /\ NoOverride(reply)
    /\ UnitMention(reply)
    /\ val = 1
    /\ ret.kind = "return"
    /\ ret.v = 1

\* a stock-out reply with an alternative offer or a can-supply phrase, no
\* hard decline, no late delay and no week/month/year mention
MitigatedStockOut ==
    /\ pc = "done"
    /\ NEG_STOCK_RE(reply)
    /\ ALTERNATIVE_RE(reply) \/ SUPPLY_RE(reply)
    /\ ~NEG_HARD_RE(reply)
    /\ NotPastTerm
    /\ ~UnitMention(reply)

\* C23 (as claimed): a mitigated stock-out reply is labelled neutral for
\* every raw verdict.
C23_MitigatedStockOutNeutral ==
    MitigatedStockOut => (ret.kind = "return" /\ LABEL[ret.v] = "neutral")

\* C23 (amended): a mitigated stock-out reply is labelled neutral when it
\* holds an alternative offer and positive when it holds only a can-supply
\* phrase, for every raw verdict.
C23_MitigatedStockOutByOffer ==
    MitigatedStockOut
    => /\ ret.kind = "return"
       /\ LABEL[ret.v] = IF ALTERNATIVE_RE(reply) THEN "neutral" ELSE "positive"

\* a stock-out reply with a can-supply phrase and a negative raw verdict
C23_Witness ==
    /\ MitigatedStockOut
    /\ ~ALTERNATIVE_RE(reply)
    /\ val = -1
    /\ ret.kind = "return"
    /\ ret.v = 1

\* C24: a reply matching alternative_offer is never labelled positive.
C24_AlternativeNeverPositive ==
    (pc = "done" /\ ALTERNATIVE_RE(reply))
    => (ret.kind = "return" => LABEL[ret.v] \in {"neutral", "negative",
                                                  "positive_out_of_term"})

\* an on-time alternative offer with a can-supply phrase and an affirmative
\* raw verdict ended neutral
C24_Witness ==
    /\ pc = "done"
    /\ ALTERNATIVE_RE(reply)
    /\ SUPPLY_RE(reply)
    /\ DelayMatches(reply) # {}
    /\ NotPastTerm
    /\ val = 1
    /\ ret.kind = "return"
    /\ ret.v = 0

\* C25: _delay_days gives ceil(quantity x factor) with day=1, week=7,
\* month=30, year=365 for the first quantity+unit phrase, and None when the
\* text holds no such phrase.
C25_DelayIsCeiling ==
    pc = "done" => _delay_days(reply) = StatedDelay(reply)

-----------------------------------------------------------------------------
(* Properties of LabelerApp *)

\* C26: a classification of a LabelerApp with default configuration
\* decides as _normalize does with the limit of 14 days.
C26_DefaultLimit ==
    (apc # "off" /\ ret.kind = "return")
    => ret = _normalize(val, reply, _DEFAULT_LEAD_DAYS, deadline, sent)

\* C27: a message is tagged at most once and carries PROCESSED from then
\* on, and no message carrying PROCESSED is handed to the classifier,
\* however often the queries of this and later runs return it.
C27_ProcessedOnce ==
    /\ [](\A m \in DOMAIN tagged :
            /\ tagged[m] <= 1
            /\ tagged[m] = 1 => "done_id" \in labels[m])
    /\ [][\A m \in DOMAIN labels :
            "done_id" \in labels[m] => classified'[m] = classified[m]]_vars

\* every message was tagged, and a later visit in the second run skipped one
C27_Witness ==
    /\ apc # "off"
    /\ runs = 2
    /\ stage = "skipped"
    /\ \A m \in DOMAIN tagged : tagged[m] = 1 /\ classified[m] = 1

\* C28: every forward of a message was made under the verdict positive.
C28_ForwardOnlyPositive ==
    \A m \in DOMAIN forwarded :
        \A i \in DOMAIN forwarded[m] : forwarded[m][i] = "positive"

\* the label id that stands for a verdict
VerdictId(sentiment) ==
    CASE sentiment = "positive"             -> "pos_id"
      [] sentiment = "positive_out_of_term" -> "pos_term_id"
      [] sentiment = "negative"             -> "neg_id"
      [] sentiment = "neutral"              -> "neu_id"

\* C29: a completed _classify_and_tag leaves the message with the label of
\* the returned verdict as its only verdict label, with PROCESSED and with
\* the main label; its other labels are as before.
C29_ExactlyOneVerdictLabel ==
    /\ [](\A m \in DOMAIN tagged :
            tagged[m] >= 1
            => /\ Cardinality(labels[m] \cap VerdictIds) = 1
               /\ {"done_id", "main_id"} \subseteq labels[m])
    /\ [][\A m \in DOMAIN tagged :
            tagged'[m] # tagged[m]
            => labels'[m] = (labels[m] \ VerdictIds)
                              \cup {VerdictId(label'), "done_id", "main_id"}]_vars

\* a message was tagged negative and carries that verdict label alone
C29_Witness ==
    /\ apc # "off"
    /\ stage = "done"
    /\ label = "negative"
    /\ \E m \in DOMAIN tagged :
         /\ tagged[m] = 1
         /\ reply = body[m]
         /\ labels[m] = {"neg_id", "done_id", "main_id"}

\* C30: when classify raises, no label of any message changes, nothing is
\* forwarded and the message stays without PROCESSED.
C30_FailureChangesNothing ==
    [][\A m \in DOMAIN classified :
         (classified'[m] # classified[m] /\ outcome' # "label")
         => /\ labels' = labels
            /\ forwarded' = forwarded
            /\ tagged' = tagged
            /\ "done_id" \notin labels'[m]]_vars

\* classify raised for a message that keeps its two earlier verdict labels
C30_Witness ==
    /\ apc # "off"
    /\ stage = "classify"
    /\ outcome \notin {"label", "none"}
    /\ \E m \in DOMAIN classified :
         /\ classified[m] >= 1
         /\ reply = body[m]
         /\ labels[m] = {"pos_id", "neu_id"}

====
